---- MODULE Spec2Model ----
(***************************************************************************)
(* A model of the two simulations of the repository:                       *)
(*   bh.py  central attractor with absorption ("mode a"), BlackHoleSim     *)
(*   e.py   finite-radius particles, walls and collisions ("mode b"),      *)
(*          Simulation                                                     *)
(*                                                                         *)
(* Python floats are modelled in fixed point, every quantity an integer    *)
(* number of the units below, every product/quotient of the source rounded *)
(* to the nearest unit (Quot):                                             *)
(*   e.py   positions 1/PU px, velocities 1/VU px/s, unit normals 1/NS,    *)
(*          speed in 1/1000, time steps in microseconds, masses in px^2    *)
(*   bh.py  positions 1/PUA px, velocities and accelerations 1/VUA,        *)
(*          M in 1/10, speed_mult in 1/8, base_dt = 1/FPS s                *)
(*                                                                         *)
(* `last`, `pre`, `calls`, `frameCalls`, `ticksLeft`, `evLeft` are         *)
(* observers: the handler that ran last, the particle store as it was when *)
(* that handler started, the number of step() / _step() calls that handler *)
(* made, the handlers that called it in the current iteration of the       *)
(* driver loop, and the ticks and events a run may still take.             *)
(***************************************************************************)
EXTENDS Integers, Sequences, FiniteSets, TLC

VARIABLES prog, pc, bh, sim, drag, last, pre, calls, frameCalls, ticksLeft, evLeft

vars == <<prog, pc, bh, sim, drag, last, pre, calls, frameCalls, ticksLeft, evLeft>>

(***************************************************************************)
(* Fixed-point arithmetic                                                  *)
(***************************************************************************)
Abs(a) == IF a < 0 THEN -a ELSE a

Max(a, b) == IF a >= b THEN a ELSE b

Min(a, b) == IF a <= b THEN a ELSE b

\* a / b for b > 0, rounded to the nearest integer, ties away from zero
Quot(a, b) == IF a >= 0 THEN (2 * a + b) \div (2 * b) ELSE -((2 * (-a) + b) \div (2 * b))

RECURSIVE SqrtIter(_, _, _)
SqrtIter(n, lo, hi) ==
    IF lo >= hi THEN lo
    ELSE LET mid == (lo + hi + 1) \div 2
         IN IF mid * mid <= n THEN SqrtIter(n, mid, hi) ELSE SqrtIter(n, lo, mid - 1)

\* math.sqrt on a non-negative fixed-point number: the largest k with k*k <= n
Sqrt(n) == SqrtIter(n, 0, Min(n, 46340))

\* units
PU == 10
VU == 10
NS == 1000

(***************************************************************************)
(* e.py                                                                    *)
(***************************************************************************)
WIDTH == 800 * PU
HEIGHT == 600 * PU
MIN_RADIUS == 18 * PU
MAX_RADIUS == 18 * PU
\* GRAVITY = 200.0 px/s^2
GRAVITY == 200
\* FRICTION = 1.0, in 1/1000
FRICTION == 1000
\* self.dt = 0.016 s, in microseconds
E_DT == 16000
\* e = 0.95, in 1/100
RESTITUTION == 95

\* Particle(x, y, vx, vy, r, r * r, color): the mass is r*r in px^2
Particle(x, y, vx, vy, r) ==
    [x |-> x, y |-> y, vx |-> vx, vy |-> vy, r |-> r, m |-> (r * r) \div (PU * PU)]

\* Simulation._overlap
Overlap(a, b) ==
    LET dx == a.x - b.x
        dy == a.y - b.y
    IN dx * dx + dy * dy < (a.r + b.r) * (a.r + b.r)

\* a wall that stops the particle instead of reflecting it
WallLeftZeroed(p) == IF p.x - p.r < 0 THEN [p EXCEPT !.x = p.r, !.vx = 0] ELSE p

\* Simulation._handle_wall_collision: four independent tests, in this order
WallLeft(p) == IF p.x - p.r < 0 THEN [p EXCEPT !.x = p.r, !.vx = Abs(p.vx)] ELSE p

WallRight(p) == IF p.x + p.r > WIDTH THEN [p EXCEPT !.x = WIDTH - p.r, !.vx = -Abs(p.vx)] ELSE p

WallTop(p) == IF p.y - p.r < 0 THEN [p EXCEPT !.y = p.r, !.vy = Abs(p.vy)] ELSE p

WallBottom(p) == IF p.y + p.r > HEIGHT THEN [p EXCEPT !.y = HEIGHT - p.r, !.vy = -Abs(p.vy)] ELSE p

HandleWallCollision(p) == WallBottom(WallTop(WallRight(WallLeft(p))))

\* the integration lines of Simulation._step for one particle; dtm in microseconds
Integrate(p, dtm) ==
    LET vy1 == p.vy + Quot(GRAVITY * VU * dtm, 1000000)
        vx2 == Quot(p.vx * FRICTION, 1000)
        vy2 == Quot(vy1 * FRICTION, 1000)
    IN [p EXCEPT !.vx = vx2, !.vy = vy2,
                 !.x = p.x + Quot(vx2 * dtm, 1000000),
                 !.y = p.y + Quot(vy2 * dtm, 1000000)]

\* a test that forgets the radii: every pair of distinct centers collides
CollidingAlways(a, b) == (b.x - a.x) * (b.x - a.x) + (b.y - a.y) * (b.y - a.y) > 0

\* if dist2 <= radii * radii and dist2 > 0
Colliding(a, b) ==
    LET dx == b.x - a.x
        dy == b.y - a.y
        dist2 == dx * dx + dy * dy
        radii == a.r + b.r
    IN dist2 <= radii * radii /\ dist2 > 0

\* a correction that moves both particles by the whole overlap
PushApartUnweighted(a, b, nx, ny, overlap) ==
    <<[a EXCEPT !.x = a.x - Quot(nx * overlap, NS), !.y = a.y - Quot(ny * overlap, NS)],
      [b EXCEPT !.x = b.x + Quot(nx * overlap, NS), !.y = b.y + Quot(ny * overlap, NS)]>>

\* "push particles apart proportional to mass": a against the normal by
\* overlap * (b.m / total_mass), b along it by overlap * (a.m / total_mass)
PushApart(a, b, nx, ny, overlap) ==
    LET total_mass == a.m + b.m
    IN <<[a EXCEPT !.x = a.x - Quot(nx * overlap * b.m, NS * total_mass),
                   !.y = a.y - Quot(ny * overlap * b.m, NS * total_mass)],
         [b EXCEPT !.x = b.x + Quot(nx * overlap * a.m, NS * total_mass),
                   !.y = b.y + Quot(ny * overlap * a.m, NS * total_mass)]>>

\* the impulse: nothing when the pair separates (vel_along_normal > 0), else
\* j = -(1 + e) * vn; j /= 1/m_a + 1/m_b; impulse = j * n; v_a -= impulse / m_a;
\* v_b += impulse / m_b.  The two velocity changes are j0 * n times
\* m_b / (m_a + m_b) and m_a / (m_a + m_b), j0 = -(1 + e) * vn.
Bounce(a, b, nx, ny) ==
    LET rvx == b.vx - a.vx
        rvy == b.vy - a.vy
        vel_along_normal == rvx * nx + rvy * ny
        j0 == Quot(-(100 + RESTITUTION) * Quot(vel_along_normal, NS), 100)
        total_mass == a.m + b.m
    IN IF vel_along_normal > 0 THEN <<a, b>>
       ELSE <<[a EXCEPT !.vx = a.vx - Quot(Quot(j0 * nx, NS) * b.m, total_mass),
                        !.vy = a.vy - Quot(Quot(j0 * ny, NS) * b.m, total_mass)],
              [b EXCEPT !.vx = b.vx + Quot(Quot(j0 * nx, NS) * a.m, total_mass),
                        !.vy = b.vy + Quot(Quot(j0 * ny, NS) * a.m, total_mass)]>>

\* the body of the inner loop of Simulation._resolve_collisions for the pair (i, j)
ResolvePair(ps, i, j) ==
    LET a == ps[i]
        b == ps[j]
        dx == b.x - a.x
        dy == b.y - a.y
    IN IF Colliding(a, b)
       THEN LET dist == Sqrt(dx * dx + dy * dy)
                nx == Quot(dx * NS, dist)
                ny == Quot(dy * NS, dist)
                pushed == PushApart(a, b, nx, ny, (a.r + b.r) - dist)
                out == Bounce(pushed[1], pushed[2], nx, ny)
            IN [ps EXCEPT ![i] = out[1], ![j] = out[2]]
       ELSE ps

\* for i in range(n): for j in range(i + 1, n): ...   (1-based here)
RECURSIVE ResolveFrom(_, _, _)
ResolveFrom(ps, i, j) ==
    IF i > Len(ps) THEN ps
    ELSE IF j > Len(ps) THEN ResolveFrom(ps, i + 1, i + 2)
    ELSE ResolveFrom(ResolvePair(ps, i, j), i, j + 1)

\* Simulation._resolve_collisions
ResolveCollisions(ps) == ResolveFrom(ps, 1, 2)

\* Simulation._step: integrate and wall-handle each particle, then the pair sweep
StepE(ps, dtm) ==
    ResolveCollisions([k \in 1..Len(ps) |-> HandleWallCollision(Integrate(ps[k], dtm))])


\* bounds of the e.py runs
MaxN == 2
MaxParticles == 2
MaxTicks == 2
MaxEvents == 2

\* the draws of _init_particles: x in [r, WIDTH - r], y in [r, HEIGHT - r],
\* vx, vy in [-150, 150] px/s, r in [MIN_RADIUS, MAX_RADIUS]
PlaceXY == {<<18 * PU, 300 * PU>>, <<50 * PU, 300 * PU>>, <<400 * PU, 300 * PU>>}

PlaceV == {<<-100 * VU, 0>>, <<100 * VU, -100 * VU>>}

Radii == MIN_RADIUS..MAX_RADIUS

Candidates ==
    {Particle(xy[1], xy[2], v[1], v[2], r) : xy \in PlaceXY, v \in PlaceV, r \in Radii}

\* the stores _init_particles can build with k accepted placements
RECURSIVE Placed(_)
Placed(k) ==
    IF k = 0 THEN {<<>>}
    ELSE UNION {{Append(ps, c) :
                    c \in {d \in Candidates : \A i \in 1..Len(ps) : ~Overlap(d, ps[i])}} :
                ps \in Placed(k - 1)}

\* Simulation._init_particles(n): the loop ends with n particles, or with fewer
\* when the n * 200 attempts run out (every rejected attempt overlaps a placed
\* particle, so the first attempt is always accepted)
InitParticles(n) == UNION {Placed(k) : k \in Min(1, n)..n}

\* drag = {"p": None, "last": None, "start": None, "button": None}; p is 0 (None),
\* an index into the store, or -1 (a particle of a store that _reset replaced)
NoDrag == [p |-> 0, last |-> <<>>, start |-> <<>>, button |-> 0]

MouseXY == {<<5 * PU, 300 * PU>>, <<30 * PU, 300 * PU>>}

\* 1/elapsed seconds between two mouse events, time.time() differences >= 1e-4
MouseRate == {2, 20}

\* the other program's objects while one program runs
Absent == [particles |-> <<>>]

InitE(maxn, t, e) ==
    /\ prog = "e"
    /\ pc = "mainloop"
    /\ \E n \in 1..maxn : \E ps \in InitParticles(n) :
          sim = [particles |-> ps, running |-> TRUE, speed |-> 1000]
    /\ drag = NoDrag
    /\ bh = Absent
    /\ last = "init"
    /\ pre = <<>>
    /\ calls = 0
    /\ frameCalls = <<>>
    /\ ticksLeft = t
    /\ evLeft = e

\* what every e.py handler leaves alone
FrameE(name) ==
    /\ prog = "e"
    /\ last' = name
    /\ pre' = sim.particles
    /\ UNCHANGED <<prog, pc, bh>>

EventE(name) ==
    /\ FrameE(name)
    /\ evLeft > 0
    /\ evLeft' = evLeft - 1
    /\ calls' = 0
    /\ UNCHANGED <<frameCalls, ticksLeft>>

\* Simulation._toggle
Toggle ==
    /\ EventE("_toggle")
    /\ sim' = [sim EXCEPT !.running = ~sim.running]
    /\ UNCHANGED drag

\* Simulation._reset
Reset ==
    /\ EventE("_reset")
    /\ \E ps \in InitParticles(Len(sim.particles)) : sim' = [sim EXCEPT !.particles = ps]
    /\ drag' = [drag EXCEPT !.p = IF drag.p = 0 THEN 0 ELSE -1]

\* a speed change that clamps from above only
ChangeSpeedValueNoFloor(speed, factor) == Min(10000, Quot(speed * factor, 10))

\* Simulation._change_speed(factor), factor in 1/10
ChangeSpeedValue(speed, factor) == Max(100, Min(10000, Quot(speed * factor, 10)))

ChangeSpeed(name, factor) ==
    /\ EventE(name)
    /\ sim' = [sim EXCEPT !.speed = ChangeSpeedValue(sim.speed, factor)]
    /\ UNCHANGED drag

\* <Up>, <Down> and the mouse wheel (delta > 0: 1.1, delta < 0: 0.9)
SpeedUp == ChangeSpeed("_change_speed(1.1)", 11)

SpeedDown == ChangeSpeed("_change_speed(0.9)", 9)

\* Simulation._loop: one _step(self.dt * self.speed) when running
LoopDt == Quot(E_DT * sim.speed, 1000)

Loop ==
    /\ FrameE("_loop")
    /\ UNCHANGED <<drag, evLeft>>
    /\ IF sim.running
       THEN /\ ticksLeft > 0
            /\ ticksLeft' = ticksLeft - 1
            /\ calls' = 1
            /\ frameCalls' = <<"_loop">>
            /\ sim' = [sim EXCEPT !.particles = StepE(sim.particles, LoopDt)]
       ELSE /\ calls' = 0
            /\ frameCalls' = <<>>
            /\ UNCHANGED <<sim, ticksLeft>>

\* find_particle_at: topmost (last) particle whose disc holds (x, y), 0 if none
FindParticleAt(ps, x, y) ==
    LET hit == {k \in 1..Len(ps) :
                  (ps[k].x - x) * (ps[k].x - x) + (ps[k].y - y) * (ps[k].y - y)
                      <= ps[k].r * ps[k].r}
    IN IF hit = {} THEN 0 ELSE CHOOSE k \in hit : \A h \in hit : h <= k

\* on_button_press, button 1: pick the particle under the mouse or spawn one at rest
ButtonPress1 ==
    /\ EventE("on_button_press(1)")
    /\ \E xy \in MouseXY, r \in Radii :
          LET k == FindParticleAt(sim.particles, xy[1], xy[2])
          IN IF k # 0
             THEN /\ drag' = [drag EXCEPT !.button = 1, !.p = k, !.last = xy]
                  /\ UNCHANGED sim
             ELSE /\ Len(sim.particles) < MaxParticles
                  /\ sim' = [sim EXCEPT !.particles =
                                Append(@, Particle(xy[1], xy[2], 0, 0, r))]
                  /\ drag' = [drag EXCEPT !.button = 1, !.p = Len(sim.particles) + 1,
                                          !.last = xy]

\* on_button_press, button 3: remember where the drag started
ButtonPress3 ==
    /\ EventE("on_button_press(3)")
    /\ \E xy \in MouseXY : drag' = [drag EXCEPT !.button = 3, !.start = xy]
    /\ UNCHANGED sim

\* on_motion: move the dragged particle to the mouse, velocity = displacement / dt
Motion ==
    /\ EventE("on_motion")
    /\ \E xy \in MouseXY, rate \in MouseRate :
          IF drag.p # 0 /\ drag.last # <<>>
          THEN /\ drag' = [drag EXCEPT !.last = xy]
               /\ IF drag.p > 0
                  THEN sim' = [sim EXCEPT !.particles[drag.p] =
                                  [@ EXCEPT !.x = xy[1], !.y = xy[2],
                                            !.vx = (xy[1] - drag.last[1]) * rate,
                                            !.vy = (xy[2] - drag.last[2]) * rate]]
                  ELSE UNCHANGED sim
          ELSE UNCHANGED <<sim, drag>>

\* on_button_release: button 1 drops the particle; button 3 spawns one with the
\* velocity of the drag, (x - sx) / dt * 0.02
ButtonRelease ==
    /\ EventE("on_button_release")
    /\ \E b \in {1, 3}, xy \in MouseXY, rate \in MouseRate, r \in Radii :
          IF b = 1 /\ drag.p # 0
          THEN /\ drag' = [drag EXCEPT !.p = 0, !.last = <<>>]
               /\ UNCHANGED sim
          ELSE IF b = 3 /\ drag.start # <<>>
          THEN /\ Len(sim.particles) < MaxParticles
               /\ sim' = [sim EXCEPT !.particles =
                             Append(@, Particle(drag.start[1], drag.start[2],
                                                Quot((xy[1] - drag.start[1]) * rate * 2, 100),
                                                Quot((xy[2] - drag.start[2]) * rate * 2, 100), r))]
               /\ drag' = [drag EXCEPT !.start = <<>>]
          ELSE UNCHANGED <<sim, drag>>

(***************************************************************************)
(* bh.py                                                                   *)
(***************************************************************************)
\* units of bh.py: positions 1/PUA px, velocities and accelerations 1/VUA px/s(^2)
PUA == 100
VUA == 10000
\* WIDTH, HEIGHT = 1000, 700 and center() = (width / 2, height / 2)
CX == 500 * PUA
CY == 350 * PUA
FPS == 60
\* G = 10.0
G == 10
\* soft = 6.0 px
SOFT == 6 * PUA
\* self.trail_length = 30
trail_length == 30
\* self.base_dt = 1.0 / FPS, in units of 1/(8 * FPS) s
BASE_DT == 8
\* bounds of the bh.py runs
CloudSize == 1
MaxSpeedMult == 32

\* BlackHoleSim.schwarzschild_radius: 2.0 * self.M  (M in 1/10, the result in 1/PUA px)
SchwarzschildRadius(M) == 2 * M * (PUA \div 10)

\* BlackHoleSim.compute_acceleration: (0, 0) at the center, else
\* -G * M * d / (r*r + soft*soft) ** 1.5 for d = dx and d = dy
AccelComponent(M, d, base) ==
    -Quot(Quot(G * M * d, Quot(Sqrt(base), PUA \div 10)) * (VUA \div PUA), Quot(base, PUA * PUA))

ComputeAcceleration(M, px, py) ==
    LET dx == px - CX
        dy == py - CY
        base == dx * dx + dy * dy + SOFT * SOFT
    IN IF dx = 0 /\ dy = 0 THEN <<0, 0>>
       ELSE <<AccelComponent(M, dx, base), AccelComponent(M, dy, base)>>

\* Particle(x, y, vx, vy): id stands for the identity of the Python object
ParticleA(id, x, y, vx, vy) ==
    [id |-> id, x |-> x, y |-> y, vx |-> vx, vy |-> vy, trail |-> <<>>]

\* BlackHoleSim.add_particle
AddParticle(b, x, y, vx, vy) ==
    [b EXCEPT !.particles = Append(@, ParticleA(b.next_id, x, y, vx, vy)),
              !.next_id = @ + 1]

\* v_circ = math.sqrt(G * self.M / max(r, 1e-3)), r in 1/PUA px, r >= 1
VCirc(M, r) == 1000 * Sqrt(Quot(1000 * G * M, r))

\* explicit Euler: the position advances with the velocity of before the update
MoveAExplicit(p, M, dt) ==
    LET a == ComputeAcceleration(M, p.x, p.y)
    IN [p EXCEPT !.vx = p.vx + Quot(a[1] * dt, 8 * FPS),
                 !.vy = p.vy + Quot(a[2] * dt, 8 * FPS),
                 !.x = p.x + Quot(p.vx * dt, 8 * FPS * (VUA \div PUA)),
                 !.y = p.y + Quot(p.vy * dt, 8 * FPS * (VUA \div PUA))]

\* the velocity and position lines of step() for one particle: a at the old
\* position, v += a * dt, then x += v * dt with the new v
MoveA(p, M, dt) ==
    LET a == ComputeAcceleration(M, p.x, p.y)
        vx1 == p.vx + Quot(a[1] * dt, 8 * FPS)
        vy1 == p.vy + Quot(a[2] * dt, 8 * FPS)
    IN [p EXCEPT !.vx = vx1, !.vy = vy1,
                 !.x = p.x + Quot(vx1 * dt, 8 * FPS * (VUA \div PUA)),
                 !.y = p.y + Quot(vy1 * dt, 8 * FPS * (VUA \div PUA))]

\* a trail that drops the newest position when it is full
TrailAppendDropNewest(p) ==
    LET t == Append(p.trail, <<p.x, p.y>>)
    IN [p EXCEPT !.trail = IF Len(t) > trail_length THEN SubSeq(t, 1, trail_length) ELSE t]

\* p.trail.append((p.x, p.y)); if len(p.trail) > self.trail_length: p.trail.pop(0)
TrailAppend(p) ==
    LET t == Append(p.trail, <<p.x, p.y>>)
    IN [p EXCEPT !.trail = IF Len(t) > trail_length THEN Tail(t) ELSE t]

\* math.hypot(p.x - cx, p.y - cy) <= r_s
Captured(p, r_s) == (p.x - CX) * (p.x - CX) + (p.y - CY) * (p.y - CY) <= r_s * r_s

\* the body of "for p in self.particles" in step()
StepOne(p, M, dt) == TrailAppend(MoveA(p, M, dt))

\* list.remove(p): delete the first element equal to p
RECURSIVE ListRemove(_, _)
ListRemove(ps, p) ==
    IF ps = <<>> THEN <<>>
    ELSE IF Head(ps) = p THEN Tail(ps)
    ELSE <<Head(ps)>> \o ListRemove(Tail(ps), p)

\* for p in remove: self.particles.remove(p)
RECURSIVE RemoveEach(_, _)
RemoveEach(ps, remove) ==
    IF remove = <<>> THEN ps ELSE RemoveEach(ListRemove(ps, Head(remove)), Tail(remove))

\* a pass that removes an absorbed particle from the store at once: the list
\* iterator then skips the particle that moved into its place
RECURSIVE StepPassRemoving(_, _, _, _, _, _)
StepPassRemoving(ps, k, remove, M, dt, r_s) ==
    IF k > Len(ps) THEN <<ps, remove>>
    ELSE LET q == StepOne(ps[k], M, dt)
             qs == [ps EXCEPT ![k] = q]
         IN StepPassRemoving(IF Captured(q, r_s) THEN ListRemove(qs, q) ELSE qs,
                             k + 1, remove, M, dt, r_s)

\* the first loop of step() from index k on: the updated store and the remove list
RECURSIVE StepPass(_, _, _, _, _, _)
StepPass(ps, k, remove, M, dt, r_s) ==
    IF k > Len(ps) THEN <<ps, remove>>
    ELSE LET q == StepOne(ps[k], M, dt)
         IN StepPass([ps EXCEPT ![k] = q], k + 1,
                     IF Captured(q, r_s) THEN Append(remove, q) ELSE remove, M, dt, r_s)

\* BlackHoleSim.step
Step(b) ==
    LET done == StepPass(b.particles, 1, <<>>, b.M, b.dt, SchwarzschildRadius(b.M))
    IN [b EXCEPT !.particles = RemoveEach(done[1], done[2])]

\* the draws of spawn_random_cloud: r in [radius_min, radius_max] = [120, 320] px,
\* theta (here: its cosine and sine), the factors uniform(0.8, 1.2) in 1/10
CloudR == {120 * PUA}

CloudDir == {<<1, 0>>, <<0, -1>>}

CloudFactor == {10}

\* BlackHoleSim.spawn_random_cloud(n), n particles added one after the other
RECURSIVE SpawnRandomCloud(_, _)
SpawnRandomCloud(b, n) ==
    IF n = 0 THEN {b}
    ELSE UNION {{AddParticle(c, CX + r * d[1], CY + r * d[2],
                             -Quot(VCirc(c.M, r) * d[2] * f, 10),
                             Quot(VCirc(c.M, r) * d[1] * f, 10)) :
                    r \in CloudR, d \in CloudDir, f \in CloudFactor} :
                c \in SpawnRandomCloud(b, n - 1)}

\* BlackHoleSim.__init__
NewSim ==
    [particles |-> <<>>, next_id |-> 1, M |-> 400, running |-> TRUE, paused |-> FALSE,
     speed_mult |-> 8, dt |-> Quot(BASE_DT * 8, 8), show_trails |-> TRUE,
     dragging |-> FALSE, drag_start |-> <<>>, drag_button |-> 0]

\* run() up to its while loop: the initial cloud
InitA(t, e) ==
    /\ prog = "bh"
    /\ pc = "top"
    /\ bh \in SpawnRandomCloud(NewSim, CloudSize)
    /\ sim = Absent
    /\ drag = NoDrag
    /\ last = "init"
    /\ pre = <<>>
    /\ calls = 0
    /\ frameCalls = <<>>
    /\ ticksLeft = t
    /\ evLeft = e

\* what every step of run() leaves alone
FrameA(name) ==
    /\ prog = "bh"
    /\ last' = name
    /\ pre' = bh.particles
    /\ UNCHANGED <<prog, sim, drag>>

\* while self.running: for event in pygame.event.get(): a new iteration starts
PollEvents ==
    /\ FrameA("pygame.event.get")
    /\ pc = "top"
    /\ bh.running
    /\ pc' = "events"
    /\ calls' = 0
    /\ frameCalls' = <<>>
    /\ UNCHANGED <<bh, ticksLeft, evLeft>>

\* one event of the batch
EventA(name) ==
    /\ FrameA(name)
    /\ pc = "events"
    /\ evLeft > 0
    /\ evLeft' = evLeft - 1
    /\ UNCHANGED pc

Plain(name) == EventA(name) /\ calls' = 0 /\ UNCHANGED <<frameCalls, ticksLeft>>

\* pygame.QUIT, and KEYDOWN K_ESCAPE
Quit == Plain("QUIT") /\ bh' = [bh EXCEPT !.running = FALSE]

KeyEscape == Plain("K_ESCAPE") /\ bh' = [bh EXCEPT !.running = FALSE]

KeySpace == Plain("K_SPACE") /\ bh' = [bh EXCEPT !.paused = ~bh.paused]

KeyC == Plain("K_c") /\ bh' = [bh EXCEPT !.particles = <<>>]

\* K_r: spawn_random_cloud(n=60)
KeyR == Plain("K_r") /\ bh' \in SpawnRandomCloud(bh, CloudSize)

\* K_UP: M *= 1.5 with shift, else M *= 1.1
KeyUp ==
    /\ Plain("K_UP")
    /\ \E shift \in BOOLEAN :
          bh' = [bh EXCEPT !.M = IF shift THEN Quot(bh.M * 15, 10) ELSE Quot(bh.M * 11, 10)]

\* K_DOWN: M = max(1.0, M / 1.5) with shift, else max(1.0, M * 0.9)
KeyDown ==
    /\ Plain("K_DOWN")
    /\ \E shift \in BOOLEAN :
          bh' = [bh EXCEPT !.M = IF shift THEN Max(10, Quot(bh.M * 10, 15))
                                          ELSE Max(10, Quot(bh.M * 9, 10))]

\* K_RIGHTBRACKET: speed_mult *= 2.0; dt = base_dt * speed_mult
KeyRightBracket ==
    /\ Plain("K_RIGHTBRACKET")
    /\ bh.speed_mult < MaxSpeedMult
    /\ bh' = [bh EXCEPT !.speed_mult = bh.speed_mult * 2,
                        !.dt = Quot(BASE_DT * (bh.speed_mult * 2), 8)]

\* K_LEFTBRACKET: speed_mult = max(0.125, speed_mult / 2.0); dt = base_dt * speed_mult
KeyLeftBracket ==
    /\ Plain("K_LEFTBRACKET")
    /\ LET s == Max(1, Quot(bh.speed_mult, 2))
       IN bh' = [bh EXCEPT !.speed_mult = s, !.dt = Quot(BASE_DT * s, 8)]

\* a single-step that forgets to test self.paused
KeyNAlways ==
    /\ EventA("K_n")
    /\ ticksLeft > 0
    /\ ticksLeft' = ticksLeft - 1
    /\ calls' = 1
    /\ frameCalls' = Append(frameCalls, "K_n")
    /\ bh' = Step(bh)

\* K_n: if self.paused: self.step()
KeyN ==
    /\ EventA("K_n")
    /\ IF bh.paused
       THEN /\ ticksLeft > 0
            /\ ticksLeft' = ticksLeft - 1
            /\ calls' = 1
            /\ frameCalls' = Append(frameCalls, "K_n")
            /\ bh' = Step(bh)
       ELSE /\ calls' = 0
            /\ UNCHANGED <<bh, frameCalls, ticksLeft>>

KeyT == Plain("K_t") /\ bh' = [bh EXCEPT !.show_trails = ~bh.show_trails]

\* the positions of the mouse, in 1/PUA px
MouseA == {<<500 * PUA, 350 * PUA>>, <<506 * PUA, 350 * PUA>>, <<620 * PUA, 350 * PUA>>}

\* the draws of a click: uniform(0.95, 1.05) in 1/100, uniform(-0.6, 0.6) px/s
ClickFactor == {100}

ClickVel == {<<0, 0>>, <<6000, -6000>>}

MouseButtonDown ==
    /\ Plain("MOUSEBUTTONDOWN")
    /\ \E pos \in MouseA, button \in {1, 3} :
          bh' = [bh EXCEPT !.dragging = TRUE, !.drag_start = pos, !.drag_button = button]

\* MOUSEBUTTONUP: a fling when the mouse moved more than 6 px, else a click
\* (button 1: orbital particle when r >= 5; button 3: random velocity)
EndDrag(b) == [b EXCEPT !.dragging = FALSE, !.drag_start = <<>>, !.drag_button = 0]

MouseButtonUp ==
    /\ Plain("MOUSEBUTTONUP")
    /\ \E pos \in MouseA, u \in ClickFactor, w \in ClickVel :
          IF ~bh.dragging \/ bh.drag_start = <<>>
          THEN UNCHANGED bh
          ELSE LET sx == bh.drag_start[1]
                   sy == bh.drag_start[2]
                   dx == pos[1] - sx
                   dy == pos[2] - sy
                   dx_c == sx - CX
                   dy_c == sy - CY
                   r == Sqrt(dx_c * dx_c + dy_c * dy_c)
                   v_circ == VCirc(bh.M, Max(r, 1))
               IN IF dx * dx + dy * dy > (6 * PUA) * (6 * PUA)
                  THEN bh' = EndDrag(AddParticle(bh, sx, sy, Quot(dx * 6 * (VUA \div PUA), 100),
                                                 Quot(dy * 6 * (VUA \div PUA), 100)))
                  ELSE IF bh.drag_button = 1 /\ r >= 5 * PUA
                  THEN bh' = EndDrag(AddParticle(bh, sx, sy,
                                                 Quot(Quot(-v_circ * dy_c, r) * u, 100),
                                                 Quot(Quot(v_circ * dx_c, r) * u, 100)))
                  ELSE IF bh.drag_button = 3
                  THEN bh' = EndDrag(AddParticle(bh, sx, sy, w[1], w[2]))
                  ELSE bh' = EndDrag(bh)

\* a loop tail that catches up after a single-stepped frame with a second step()
EndFrameCatchUp ==
    /\ FrameA("frame")
    /\ pc = "events"
    /\ pc' = "top"
    /\ UNCHANGED evLeft
    /\ LET b == [bh EXCEPT !.dt = Quot(BASE_DT * bh.speed_mult, 8)]
       IN IF ~bh.paused
          THEN /\ ticksLeft > 0
               /\ ticksLeft' = ticksLeft - 1
               /\ calls' = IF frameCalls = <<>> THEN 1 ELSE 2
               /\ frameCalls' = IF frameCalls = <<>> THEN <<"frame">>
                                 ELSE frameCalls \o <<"frame", "frame">>
               /\ bh' = IF frameCalls = <<>> THEN Step(b) ELSE Step(Step(b))
          ELSE /\ calls' = 0
               /\ bh' = b
               /\ UNCHANGED <<frameCalls, ticksLeft>>

\* the rest of the iteration: dt = base_dt * speed_mult; if not paused: step();
\* draw(); clock.tick(FPS)
EndFrame ==
    /\ FrameA("frame")
    /\ pc = "events"
    /\ pc' = "top"
    /\ UNCHANGED evLeft
    /\ LET b == [bh EXCEPT !.dt = Quot(BASE_DT * bh.speed_mult, 8)]
       IN IF ~bh.paused
          THEN /\ ticksLeft > 0
               /\ ticksLeft' = ticksLeft - 1
               /\ calls' = 1
               /\ frameCalls' = Append(frameCalls, "frame")
               /\ bh' = Step(b)
          ELSE /\ calls' = 0
               /\ bh' = b
               /\ UNCHANGED <<frameCalls, ticksLeft>>

\* the loop ends: pygame.quit()
Exit ==
    /\ FrameA("pygame.quit")
    /\ pc = "top"
    /\ ~bh.running
    /\ pc' = "quit"
    /\ calls' = 0
    /\ UNCHANGED <<bh, frameCalls, ticksLeft, evLeft>>

NextA ==
    \/ PollEvents
    \/ Quit
    \/ KeyEscape
    \/ KeySpace
    \/ KeyC
    \/ KeyR
    \/ KeyUp
    \/ KeyDown
    \/ KeyRightBracket
    \/ KeyLeftBracket
    \/ KeyN
    \/ KeyT
    \/ MouseButtonDown
    \/ MouseButtonUp
    \/ EndFrame
    \/ Exit

SpecA == InitA(MaxTicks, MaxEvents) /\ [][NextA]_vars

NextE ==
    \/ Toggle
    \/ Reset
    \/ SpeedUp
    \/ SpeedDown
    \/ Loop
    \/ ButtonPress1
    \/ ButtonPress3
    \/ Motion
    \/ ButtonRelease

SpecE == InitE(MaxN, MaxTicks, MaxEvents) /\ [][NextE]_vars


(***************************************************************************)
(* Either program, from its start                                          *)
(***************************************************************************)
Init == InitA(MaxTicks, MaxEvents) \/ InitE(MaxN, MaxTicks, MaxEvents)

Next == NextA \/ NextE

Spec == Init /\ [][Next]_vars

(***************************************************************************)
(* _handle_wall_collision on its own: the particle is in any state the     *)
(* integration lines of _step can leave it in (spawned or dragged next to  *)
(* or beyond an edge, moving in any direction)                             *)
(***************************************************************************)
WallXs == {-5 * PU, 10 * PU, 18 * PU, 400 * PU, 782 * PU, 790 * PU, 805 * PU}

WallYs == {-5 * PU, 10 * PU, 18 * PU, 300 * PU, 582 * PU, 590 * PU, 605 * PU}

WallVs == {-50 * VU, 0, 50 * VU}

\* the other variables of a run that applies one function of e.py
Applying(name, ps) ==
    /\ prog = name
    /\ pc = "call"
    /\ sim = [particles |-> ps, running |-> TRUE, speed |-> 1000]
    /\ bh = Absent
    /\ drag = NoDrag
    /\ last = "init"
    /\ pre = <<>>
    /\ calls = 0
    /\ frameCalls = <<>>
    /\ ticksLeft = 0
    /\ evLeft = 0

Applied(name, ps) ==
    /\ pc = "call"
    /\ pc' = "return"
    /\ last' = name
    /\ pre' = sim.particles
    /\ sim' = [sim EXCEPT !.particles = ps]
    /\ UNCHANGED <<prog, bh, drag, calls, frameCalls, ticksLeft, evLeft>>

InitWall ==
    \E x \in WallXs, y \in WallYs, vx \in WallVs, vy \in WallVs, r \in Radii :
        Applying("wall", <<Particle(x, y, vx, vy, r)>>)

ApplyWall ==
    /\ prog = "wall"
    /\ Applied("_handle_wall_collision", <<HandleWallCollision(sim.particles[1])>>)

SpecWall == InitWall /\ [][ApplyWall]_vars

\* the particle before and after the call
WallCalled == last = "_handle_wall_collision"

WallIn == pre[1]

WallOut == sim.particles[1]

(* C1, as claimed: for each edge the extent crosses, the center is put at
   distance r inside that edge and the normal velocity component is inverted,
   whatever its sign was. *)
C1_Claimed ==
    WallCalled =>
        /\ WallIn.x - WallIn.r < 0 => WallOut.x = WallIn.r /\ WallOut.vx = -WallIn.vx
        /\ WallIn.x + WallIn.r > WIDTH =>
              WallOut.x = WIDTH - WallIn.r /\ WallOut.vx = -WallIn.vx
        /\ WallIn.y - WallIn.r < 0 => WallOut.y = WallIn.r /\ WallOut.vy = -WallIn.vy
        /\ WallIn.y + WallIn.r > HEIGHT =>
              WallOut.y = HEIGHT - WallIn.r /\ WallOut.vy = -WallIn.vy

(* C1, amended: for each edge the extent crosses, the center is put at distance
   r inside that edge and the normal velocity component keeps its magnitude and
   is made to point into the domain (|v| at the left and top edge, -|v| at the
   right and bottom edge): it is inverted when it pointed at the edge, and kept
   when it already pointed into the domain. *)
C1_WallReflection ==
    WallCalled =>
        /\ WallIn.x - WallIn.r < 0 =>
              /\ WallOut.x = WallIn.r
              /\ WallOut.vx >= 0
              /\ WallOut.vx = IF WallIn.vx <= 0 THEN -WallIn.vx ELSE WallIn.vx
        /\ WallIn.x + WallIn.r > WIDTH =>
              /\ WallOut.x = WIDTH - WallIn.r
              /\ WallOut.vx <= 0
              /\ WallOut.vx = IF WallIn.vx >= 0 THEN -WallIn.vx ELSE WallIn.vx
        /\ WallIn.y - WallIn.r < 0 =>
              /\ WallOut.y = WallIn.r
              /\ WallOut.vy >= 0
              /\ WallOut.vy = IF WallIn.vy <= 0 THEN -WallIn.vy ELSE WallIn.vy
        /\ WallIn.y + WallIn.r > HEIGHT =>
              /\ WallOut.y = HEIGHT - WallIn.r
              /\ WallOut.vy <= 0
              /\ WallOut.vy = IF WallIn.vy >= 0 THEN -WallIn.vy ELSE WallIn.vy

\* a particle that crossed the left edge moving left has bounced: x = r, vx = +50
C1_Witness ==
    /\ WallCalled
    /\ WallIn.x - WallIn.r < 0
    /\ WallIn.vx = -50 * VU
    /\ WallOut.x = WallIn.r
    /\ WallOut.vx = 50 * VU

(***************************************************************************)
(* _resolve_collisions on its own, on a store of two particles as the      *)
(* integration and wall handling of _step can leave them: coincident,      *)
(* overlapping, touching or apart, along an axis or along a 3-4-5          *)
(* direction (the center distance is then a whole number of units and the  *)
(* fixed-point arithmetic of the resolver is exact)                        *)
(***************************************************************************)
PairOffsets ==
    {<<0, 0>>, <<30 * PU, 0>>, <<36 * PU, 0>>, <<40 * PU, 0>>, <<-30 * PU, 0>>,
     <<0, 30 * PU>>, <<18 * PU, 24 * PU>>, <<216, 288>>, <<24 * PU, 32 * PU>>}

PairVa == {<<50 * VU, 0>>, <<-50 * VU, 0>>, <<0, 0>>, <<30 * VU, 40 * VU>>}

PairVb == {<<-50 * VU, 0>>, <<50 * VU, 0>>, <<0, 0>>}

InitPair ==
    \E off \in PairOffsets, va \in PairVa, vb \in PairVb, r \in Radii :
        Applying("pair", <<Particle(100 * PU, 100 * PU, va[1], va[2], r),
                           Particle(100 * PU + off[1], 100 * PU + off[2], vb[1], vb[2], r)>>)

ApplyResolve ==
    /\ prog = "pair"
    /\ Applied("_resolve_collisions", ResolveCollisions(sim.particles))

SpecPair == InitPair /\ [][ApplyResolve]_vars

\* the pair before and after the call
Resolved == last = "_resolve_collisions"

\* squared center distance, and squared combined radius
Dist2(a, b) == (b.x - a.x) * (b.x - a.x) + (b.y - a.y) * (b.y - a.y)

Radii2(a, b) == (a.r + b.r) * (a.r + b.r)

SamePosition(p, q) == p.x = q.x /\ p.y = q.y

SameVelocity(p, q) == p.vx = q.vx /\ p.vy = q.vy

\* the sign of (v_b - v_a) . (b.pos - a.pos) is that of the normal velocity vn
Separating(a, b) == (b.vx - a.vx) * (b.x - a.x) + (b.vy - a.vy) * (b.y - a.y) > 0

(* C2, as claimed: a pair with d >= R (d = R included) or d = 0 comes out of the
   resolver with positions and velocities unchanged, whatever the velocities. *)
C2_Claimed ==
    Resolved =>
        (Dist2(pre[1], pre[2]) >= Radii2(pre[1], pre[2]) \/ Dist2(pre[1], pre[2]) = 0
            => sim.particles = pre)

(* C2, amended: a pair with d > R or d = 0 comes out of the resolver with
   positions and velocities unchanged, whatever the velocities. The exactly
   touching pair (d = R) is resolved like an overlapping one: its positions
   do not change (the overlap is 0), and its velocities do not change only if
   the pair is separating (vn > 0). *)
C2_SeparatedPairUntouched ==
    Resolved =>
        /\ Dist2(pre[1], pre[2]) > Radii2(pre[1], pre[2]) \/ Dist2(pre[1], pre[2]) = 0
              => sim.particles = pre
        /\ Dist2(pre[1], pre[2]) = Radii2(pre[1], pre[2]) =>
              /\ SamePosition(sim.particles[1], pre[1])
              /\ SamePosition(sim.particles[2], pre[2])
              /\ Separating(pre[1], pre[2]) => sim.particles = pre

\* the resolver ran on a separated pair whose particles approach each other
C2_Witness ==
    /\ Resolved
    /\ Dist2(pre[1], pre[2]) > Radii2(pre[1], pre[2])
    /\ ~Separating(pre[1], pre[2])
    /\ pre[1].vx # pre[2].vx
    /\ sim.particles = pre

\* equal masses, overlapping, a left of b on a horizontal line, (+v, 0) and (-v, 0)
HeadOn(a, b) ==
    /\ a.m = b.m
    /\ 0 < Dist2(a, b) /\ Dist2(a, b) < Radii2(a, b)
    /\ a.y = b.y /\ a.x < b.x
    /\ a.vy = 0 /\ b.vy = 0
    /\ a.vx > 0 /\ b.vx = -a.vx

(* C8, as claimed: equal masses colliding head-on with (+v, 0) and (-v, 0)
   leave the resolver with exactly (-v, 0) and (+v, 0). *)
C8_Claimed ==
    Resolved /\ HeadOn(pre[1], pre[2]) =>
        /\ sim.particles[1].vx = -pre[1].vx /\ sim.particles[1].vy = 0
        /\ sim.particles[2].vx = pre[1].vx /\ sim.particles[2].vy = 0

(* C9: for an overlapping pair (0 < d < R) the positional correction moves a
   against the normal by overlap * m_b / (m_a + m_b) and b along it by
   overlap * m_a / (m_a + m_b): m_a * dpos_a + m_b * dpos_b = 0 and the center
   distance after the correction is exactly R. *)
C9_PositionalCorrection ==
    Resolved /\ 0 < Dist2(pre[1], pre[2]) /\ Dist2(pre[1], pre[2]) < Radii2(pre[1], pre[2]) =>
        LET a == pre[1]
            b == pre[2]
            dxa == sim.particles[1].x - a.x
            dya == sim.particles[1].y - a.y
            dxb == sim.particles[2].x - b.x
            dyb == sim.particles[2].y - b.y
            overlap == (a.r + b.r) - Sqrt(Dist2(a, b))
            total == a.m + b.m
        IN /\ a.m * dxa + b.m * dxb = 0
           /\ a.m * dya + b.m * dyb = 0
           /\ Dist2(sim.particles[1], sim.particles[2]) = Radii2(a, b)
           \* a moves against b.pos - a.pos, b along it
           /\ dxa * (b.x - a.x) <= 0 /\ dya * (b.y - a.y) <= 0
           /\ dxb * (b.x - a.x) >= 0 /\ dyb * (b.y - a.y) >= 0
           \* by the mass-weighted shares of the overlap
           /\ (dxa * dxa + dya * dya) * total * total = overlap * overlap * b.m * b.m
           /\ (dxb * dxb + dyb * dyb) * total * total = overlap * overlap * a.m * a.m

\* an overlapping pair on a 3-4-5 direction has been pushed apart
C9_Witness ==
    /\ Resolved
    /\ pre[2].x - pre[1].x = 18 * PU /\ pre[2].y - pre[1].y = 24 * PU
    /\ sim.particles[2].x - sim.particles[1].x = 216
    /\ sim.particles[2].y - sim.particles[1].y = 288

(***************************************************************************)
(* One tick of either program, through the handlers that make it (K_n and  *)
(* the tail of run()'s loop in bh.py, _loop in e.py), from states that     *)
(* clicks and keys can build: bh.py after shift-UP (M = 60) or five "]"    *)
(* (speed_mult = 32), with particles clicked at the center, inside the     *)
(* horizon, just outside it and on the horizon of M = 60; e.py at the      *)
(* speeds 0.1, 1 and 10                                                    *)
(***************************************************************************)
TickLen == 3

TickM == {400, 600}

TickSpeedMult == {8, 256}

TickSpeed == {100, 1000, 10000}

\* position and velocity of the particles a click can add
TickParticles ==
    {<<506 * PUA, 350 * PUA, 0, 0>>,
     <<500 * PUA, 350 * PUA, 0, 0>>,
     <<581 * PUA, 350 * PUA, -76 * VUA, 0>>,
     <<620 * PUA, 350 * PUA, 0, 0>>,
     <<581 * PUA, 350 * PUA, 76 * VUA, 0>>}

\* the stores of n particles, in the order they were added
RECURSIVE TickStores(_)
TickStores(n) ==
    IF n = 0 THEN {<<>>}
    ELSE {Append(ps, ParticleA(n, c[1], c[2], c[3], c[4])) :
             ps \in TickStores(n - 1), c \in TickParticles}

InitTickA ==
    /\ prog = "bh"
    /\ pc = "events"
    /\ \E M \in TickM, s \in TickSpeedMult, paused \in BOOLEAN, n \in 0..TickLen :
          \E ps \in TickStores(n) :
             bh = [NewSim EXCEPT !.particles = ps, !.next_id = n + 1, !.M = M,
                                 !.speed_mult = s, !.dt = Quot(BASE_DT * s, 8),
                                 !.paused = paused]
    /\ sim = Absent

InitTickE ==
    /\ prog = "e"
    /\ pc = "mainloop"
    /\ \E n \in 1..MaxN, speed \in TickSpeed : \E ps \in InitParticles(n) :
          sim = [particles |-> ps, running |-> TRUE, speed |-> speed]
    /\ bh = Absent

InitTick ==
    /\ InitTickA \/ InitTickE
    /\ drag = NoDrag
    /\ last = "init"
    /\ pre = <<>>
    /\ calls = 0
    /\ frameCalls = <<>>
    /\ ticksLeft = 1
    /\ evLeft = 1

NextTick ==
    \/ KeyN
    \/ EndFrame
    \/ Loop

SpecTick == InitTick /\ [][NextTick]_vars

\* the last handler of bh.py called step(), of e.py called _step()
SteppedA == prog = "bh" /\ calls = 1

SteppedE == prog = "e" /\ calls = 1

\* the particle of pre that step() integrated and tested at position k of its pass
Integrated(k) == StepOne(pre[k], bh.M, bh.dt)

\* its distance to the center after the integration is > r_s = 2 * M
OutsideHorizon(q) ==
    (q.x - CX) * (q.x - CX) + (q.y - CY) * (q.y - CY)
        > (2 * bh.M * (PUA \div 10)) * (2 * bh.M * (PUA \div 10))

(* C3: one call of step() integrates and tests every particle of the store
   exactly once and removes the absorbed ones after the pass: the store after
   the call is the sequence of the once-integrated particles whose distance to
   the center is > r_s = 2 * M, in their original order, and none of them is
   at distance <= r_s. *)
C3_DeferredRemoval ==
    SteppedA =>
        /\ bh.particles = SelectSeq([k \in 1..Len(pre) |-> Integrated(k)], OutsideHorizon)
        /\ \A k \in 1..Len(bh.particles) : OutsideHorizon(bh.particles[k])

\* a step absorbed two neighbours in the store and kept the particle after them
C3_Witness ==
    /\ SteppedA
    /\ Len(pre) = 3
    /\ ~OutsideHorizon(Integrated(1))
    /\ ~OutsideHorizon(Integrated(2))
    /\ OutsideHorizon(pre[2])
    /\ OutsideHorizon(Integrated(3))
    /\ Len(bh.particles) = 1
    /\ bh.particles[1].id = 3

\* the particle of pre that q was before the step
Before(q) == CHOOSE p \in {pre[k] : k \in 1..Len(pre)} : p.id = q.id

\* e.py: the particle after the integration lines of _step, FRICTION being 1.0
Euler(p) ==
    LET vy1 == p.vy + Quot(GRAVITY * VU * LoopDt, 1000000)
    IN [p EXCEPT !.vy = vy1,
                 !.x = p.x + Quot(p.vx * LoopDt, 1000000),
                 !.y = p.y + Quot(vy1 * LoopDt, 1000000)]

\* no wall and no other particle in reach of the integrated particles
Free(ps) ==
    /\ \A k \in 1..Len(ps) : HandleWallCollision(Euler(ps[k])) = Euler(ps[k])
    /\ \A i, j \in 1..Len(ps) : i < j => ~Colliding(Euler(ps[i]), Euler(ps[j]))

(* C10: in one tick every particle is updated by semi-implicit Euler: the
   acceleration is evaluated once, at the position before the update, the
   velocity is updated first (v' = v + a(x) * dt) and the position is advanced
   with the updated velocity (x' = x + v' * dt). In bh.py this holds for every
   particle the tick keeps; in e.py (a = (0, GRAVITY)) for the particles of a
   store that meets no wall and no collision in the tick. The tick changes no
   particle's mass or radius. *)
C10_SemiImplicitEuler ==
    /\ SteppedA =>
          \A k \in 1..Len(bh.particles) :
             LET q == bh.particles[k]
                 p == Before(q)
                 a == ComputeAcceleration(bh.M, p.x, p.y)
             IN /\ q.vx = p.vx + Quot(a[1] * bh.dt, 8 * FPS)
                /\ q.vy = p.vy + Quot(a[2] * bh.dt, 8 * FPS)
                /\ q.x = p.x + Quot(q.vx * bh.dt, 8 * FPS * (VUA \div PUA))
                /\ q.y = p.y + Quot(q.vy * bh.dt, 8 * FPS * (VUA \div PUA))
    /\ SteppedE =>
          /\ Len(sim.particles) = Len(pre)
          /\ \A k \in 1..Len(pre) :
                sim.particles[k].r = pre[k].r /\ sim.particles[k].m = pre[k].m
          /\ Free(pre) => sim.particles = [k \in 1..Len(pre) |-> Euler(pre[k])]

\* a tick of bh.py at speed_mult = 32 kept a particle that its new velocity,
\* not its old one, carried to where it is
C10_Witness ==
    /\ SteppedA
    /\ \E k \in 1..Len(bh.particles) :
          LET q == bh.particles[k]
              p == Before(q)
          IN /\ q.vx # p.vx
             /\ q.x # p.x + Quot(p.vx * bh.dt, 8 * FPS * (VUA \div PUA))

(***************************************************************************)
(* Both driver loops from the start of the program, under the commands     *)
(* that pause and single-step: Space and N in bh.py, <space> in e.py       *)
(***************************************************************************)
PauseTicks == 3

PauseEvents == 4

InitPause == InitA(PauseTicks, PauseEvents) \/ InitE(MaxN, PauseTicks, PauseEvents)

NextPause ==
    \/ PollEvents
    \/ KeySpace
    \/ KeyN
    \/ EndFrame
    \/ Toggle
    \/ Loop

SpecPause == InitPause /\ [][NextPause]_vars

\* the calls of step() in the current iteration of run()'s loop that handler h made
CallsBy(h) == Cardinality({k \in 1..Len(frameCalls) : frameCalls[k] = h})

(* C4, as claimed: in each iteration of the while-loop of run(), whatever the
   batch of events, step() is executed at most once; each call of _loop
   executes _step at most once. *)
C4_Claimed == Len(frameCalls) <= 1

(* C4, amended: in each iteration of the while-loop of run() the loop itself
   (its tail, after the events) executes step() at most once, and each K_n
   event of the batch executes it at most once more, so an iteration executes
   step() at most 1 + (number of K_n events processed while paused) times;
   each call of _loop executes _step at most once. *)
C4_OneTickPerFrame ==
    /\ calls <= 1
    /\ prog = "bh" =>
          /\ CallsBy("frame") <= 1
          /\ CallsBy("frame") + CallsBy("K_n") = Len(frameCalls)
          /\ last = "K_n" => CallsBy("frame") = 0
    /\ prog = "e" => Len(frameCalls) <= 1

\* an iteration of run() that stepped for two K_n events while paused and,
\* un-paused by a last K_SPACE, once more in its tail
C4_Witness ==
    /\ prog = "bh"
    /\ last = "frame"
    /\ frameCalls = <<"K_n", "K_n", "frame">>

(* C5: a K_n event executes step() exactly once if the simulation is paused
   when the event is processed and nothing if it is not; while paused the tail
   of the loop does not call step(); and a handler that does not call step()
   (so every handler of a paused frame without K_n) leaves every particle's
   position, velocity and trail as they were. *)
C5_PauseGating ==
    prog = "bh" =>
        /\ last = "K_n" => calls = (IF bh.paused THEN 1 ELSE 0)
        /\ last = "frame" /\ bh.paused => calls = 0
        /\ calls = 0 /\ last # "init" => bh.particles = pre

\* K_n, processed while paused, moved the particle and extended its trail
C5_Witness ==
    /\ prog = "bh"
    /\ last = "K_n"
    /\ bh.paused
    /\ calls = 1
    /\ Len(pre) = 1
    /\ Len(bh.particles) = 1
    /\ bh.particles[1].x # pre[1].x \/ bh.particles[1].y # pre[1].y
    /\ Len(bh.particles[1].trail) = Len(pre[1].trail) + 1

(***************************************************************************)
(* Both programs from their start under the speed commands: "]" and "["    *)
(* (with Space and N, the two ways to a step) in bh.py, <Up> and <Down> in *)
(* e.py, there given before the ticks. 22 times <Down> reach the lower     *)
(* clamp of e.py, 25 times <Up> the upper one                              *)
(***************************************************************************)
SpeedTicks == 1

SpeedEvents == 26

InitSpeed == InitA(SpeedTicks, SpeedEvents) \/ InitE(1, SpeedTicks, SpeedEvents)

NextSpeed ==
    \/ PollEvents
    \/ KeyRightBracket
    \/ KeyLeftBracket
    \/ KeySpace
    \/ KeyN
    \/ EndFrame
    \/ ticksLeft = SpeedTicks /\ SpeedUp
    \/ ticksLeft = SpeedTicks /\ SpeedDown
    \/ Loop

SpecSpeed == InitSpeed /\ [][NextSpeed]_vars

(* C6: after any sequence of speed-up and slow-down commands from the initial
   state the speed multiplier is inside its clamped range (>= 0.125 in bh.py,
   within [0.1, 10.0] in e.py), the time step of every tick (base step times
   multiplier) is strictly positive, and in bh.py self.dt equals
   base_dt * speed_mult at every call of step(). *)
C6_SpeedClamped ==
    /\ prog = "e" =>
          /\ 100 <= sim.speed /\ sim.speed <= 10000
          /\ LoopDt > 0
    /\ prog = "bh" =>
          /\ bh.speed_mult >= 1
          /\ calls = 1 => bh.dt = Quot(BASE_DT * bh.speed_mult, 8) /\ bh.dt > 0

\* e.py ticked at the lower clamp, which the last <Down> enforced
C6_Witness ==
    /\ prog = "e"
    /\ last = "_loop"
    /\ calls = 1
    /\ sim.speed = 100
    /\ evLeft = SpeedEvents - 22

(***************************************************************************)
(* bh.py over more ticks than a trail holds positions: run() after         *)
(* LongTicks - LastTicks iterations of its loop without an event, then any *)
(* command of run() and the last ticks, in any order                       *)
(***************************************************************************)
LongTicks == 32

LastTicks == 3

LongEvents == 1

\* the store after n iterations of run()'s loop without an event
RECURSIVE Frames(_, _)
Frames(b, n) == IF n = 0 THEN b ELSE Step(Frames(b, n - 1))

\* run() at the top of its loop, LastTicks ticks before the end of LongTicks
InitLong ==
    /\ prog = "bh"
    /\ pc = "top"
    /\ \E b \in SpawnRandomCloud(NewSim, CloudSize) :
          /\ bh = Frames(b, LongTicks - LastTicks)
          /\ pre = Frames(b, LongTicks - LastTicks - 1).particles
    /\ sim = Absent
    /\ drag = NoDrag
    /\ last = "frame"
    /\ calls = 1
    /\ frameCalls = <<"frame">>
    /\ ticksLeft = LastTicks
    /\ evLeft = LongEvents

SpecLong == InitLong /\ [][NextA]_vars

\* the ticks made so far, which the particles of the initial cloud all lived through
TicksMade == LongTicks - ticksLeft

(* C7: every particle's trail has length <= K = trail_length = 30 and is
   FIFO: a tick appends the particle's position after the integration as the
   newest element, keeps the older ones in their order and, when that makes
   K + 1 positions, evicts the oldest; no other command touches the trail of
   a particle it keeps. A particle that has lived through n ticks so holds
   its min(n, K) most recent positions, oldest first. *)
C7_TrailFifo ==
    prog = "bh" =>
        /\ \A k \in 1..Len(bh.particles) :
              LET q == bh.particles[k]
              IN /\ Len(q.trail) <= trail_length
                 /\ q.id <= CloudSize => Len(q.trail) = Min(TicksMade, trail_length)
                 /\ q.trail # <<>> => q.trail[Len(q.trail)] = <<q.x, q.y>>
        /\ \A k \in 1..Len(bh.particles) :
              LET q == bh.particles[k]
                  old == {p \in {pre[i] : i \in 1..Len(pre)} : p.id = q.id}
              IN \A p \in old :
                    q.trail = IF calls = 0 THEN p.trail
                              ELSE IF Len(p.trail) < trail_length
                                   THEN Append(p.trail, <<q.x, q.y>>)
                                   ELSE Append(Tail(p.trail), <<q.x, q.y>>)

\* a tick evicted the oldest position of a full trail
C7_Witness ==
    /\ prog = "bh"
    /\ calls = 1
    /\ \E k \in 1..Len(bh.particles), i \in 1..Len(pre) :
          /\ pre[i].id = bh.particles[k].id
          /\ Len(pre[i].trail) = trail_length
          /\ Len(bh.particles[k].trail) = trail_length
          /\ bh.particles[k].trail[1] = pre[i].trail[2]
          /\ bh.particles[k].trail[1] # pre[i].trail[1]

(***************************************************************************)
(* e.py from its start: _reset among the other commands and the ticks      *)
(***************************************************************************)
(* C11, as claimed: _reset leaves the store with the number of particles it
   had before the reset, for every outcome of the placement attempts of
   _init_particles. *)
C11_Claimed == prog = "e" /\ last = "_reset" => Len(sim.particles) = Len(pre)

\* the whole circular extent of p is inside the domain
Inside(p) ==
    /\ p.r <= p.x /\ p.x <= WIDTH - p.r
    /\ p.r <= p.y /\ p.y <= HEIGHT - p.r

(* C12, as claimed: at the end of every tick (_step: integration, wall
   handling, then the collision sweep) that started with every particle
   inside the domain, every particle has its whole circular extent inside it,
   r <= x <= WIDTH - r and r <= y <= HEIGHT - r (the diameter of every
   particle, 36 px, fits the domain). *)
C12_Claimed ==
    prog = "e" /\ last = "_loop" /\ calls = 1 =>
        ((\A k \in 1..Len(pre) : Inside(pre[k]))
            => \A k \in 1..Len(sim.particles) : Inside(sim.particles[k]))

====
